---- MODULE Spec2Model ----
(***************************************************************************)
(* Model of exp_tracker.py: the run-identity allocation and dispatch       *)
(* protocol.  Every invocation of the tracker is a process that walks      *)
(* through setup() (validation, tracking-root creation, directory scan,    *)
(* run-directory creation) and the rest of main() (run record, message     *)
(* file, script snapshot, dispatch, logging of the result).  Every system  *)
(* call is one atomic step, so that concurrent invocations interleave      *)
(* exactly where the operating system lets them.                           *)
(*                                                                         *)
(* File names are sequences of one-character strings so that the regular   *)
(* expression, int() and str.format() are computed, not assumed.           *)
(***************************************************************************)
EXTENDS Integers, Sequences, FiniteSets, TLC

VARIABLES
    rootExists,   \* os.path.isdir(args.log_dir)
    root,         \* the tracking root: entry name -> [kind, files]
    scripts,      \* the script files on disk: path -> content
    pc,           \* position of every invocation
    args,         \* parsed command line of every invocation
    file_list,    \* setup(): the directory listing
    exp_id,       \* setup(): the allocated identifier (0: not yet allocated)
    call_info,    \* main(): outcome of subprocess.run
    err,          \* the exception that ended the invocation, "none" otherwise
    exit,         \* exit status of the tool (-1 while running)
    runs,         \* history: number of invocations started so far
    inv,          \* history: serial number of the current invocation of a process
    effects,      \* history: the stages the current invocation completed, and "launch"
                  \* for every call of subprocess.run
    allocLog,     \* history: <<identifier, invocation>> of every os.mkdir(exp_dir) that succeeded
    owner,        \* history: entry name -> invocation that created it (0: pre-existing)
    writers,      \* history: entry name -> invocations that wrote into, or dispatched from, it
    delCount,     \* history: number of run directories deleted by the operator
    environ,      \* os.environ of every invocation
    slurm_call,   \* to_slurm(): the command line (<<>>: not yet built)
    log_env       \* to_slurm(): the env argument of subprocess.run

vars == <<rootExists, root, scripts, pc, args, file_list, exp_id, call_info, err,
          exit, runs, inv, effects, allocLog, owner, writers, delCount,
          environ, slurm_call, log_env>>

fsVars == <<rootExists, root, scripts>>
callVars == <<environ, slurm_call, log_env>>
histFs == <<owner, writers, delCount>>

----------------------------------------------------------------------------
(* Bounds *)

MaxRuns == 2        \* invocations per behaviour, when they may overlap
MaxSeqRuns == 4     \* invocations per behaviour, when they run one after the other
MaxSlot == 4        \* pre-existing run slots are experiment_001 .. experiment_<MaxSlot>
MaxDeletes == 1     \* run directories the operator deletes per behaviour

Procs == {1, 2}

----------------------------------------------------------------------------
(* Strings *)

Digits == <<"0", "1", "2", "3", "4", "5", "6", "7", "8", "9">>

IsDigit(c) == \E i \in 1..10 : Digits[i] = c

DigitVal(c) == (CHOOSE i \in 1..10 : Digits[i] = c) - 1

\* the literal part of exp_template and of pattern
Prefix == <<"e", "x", "p", "e", "r", "i", "m", "e", "n", "t", "_">>

RecordName == <<"e", "x", "p", "_", "r", "e", "c", "o", "r", "d", ".", "l", "o", "g">>

MessageName == <<"m", "e", "s", "s", "a", "g", "e">>

PySuffix == <<".", "p", "y">>

\* str.endswith
EndsWith(s, suf) ==
    /\ Len(s) >= Len(suf)
    /\ SubSeq(s, Len(s) - Len(suf) + 1, Len(s)) = suf

\* str(n) for n >= 0
RECURSIVE Decimal(_)
Decimal(n) ==
    IF n < 10 THEN <<Digits[n + 1]>>
    ELSE Decimal(n \div 10) \o <<Digits[(n % 10) + 1]>>

\* "{:03d}".format(n): zero-padded to at least three digits
RECURSIVE ZeroPad(_, _)
ZeroPad(s, width) == IF Len(s) >= width THEN s ELSE ZeroPad(<<"0">> \o s, width)

\* exp_template.format(exp_id)
Format(n) == Prefix \o ZeroPad(Decimal(n), 3)

\* int(s) for a string of decimal digits
RECURSIVE ParseInt(_)
ParseInt(s) ==
    IF s = <<>> THEN 0
    ELSE 10 * ParseInt(SubSeq(s, 1, Len(s) - 1)) + DigitVal(s[Len(s)])

\* the longest run of digits of s that starts at position i (greedy \d+)
RECURSIVE DigitRun(_, _)
DigitRun(s, i) ==
    IF i <= Len(s) /\ IsDigit(s[i]) THEN <<s[i]>> \o DigitRun(s, i + 1) ELSE <<>>

\* what pattern.fullmatch(f) would capture: the whole rest of the name is digits
FullMatch(f) ==
    IF /\ Len(f) > Len(Prefix)
       /\ SubSeq(f, 1, Len(Prefix)) = Prefix
       /\ DigitRun(f, Len(Prefix) + 1) = SubSeq(f, Len(Prefix) + 1, Len(f))
    THEN SubSeq(f, Len(Prefix) + 1, Len(f))
    ELSE <<>>

\* pattern.match(f).groups()[0], or <<>> when pattern.match(f) is None.
\* re.match anchors the pattern at the start of the name only, and \d+ is greedy.
Match(f) ==
    IF /\ Len(f) > Len(Prefix)
       /\ SubSeq(f, 1, Len(Prefix)) = Prefix
    THEN DigitRun(f, Len(Prefix) + 1)
    ELSE <<>>

SetMax(S) == CHOOSE m \in S : \A x \in S : x <= m

\* number of matches + 1 instead of max + 1
NextIdCount(listing) == Cardinality({f \in listing : Match(f) # <<>>}) + 1

\* smallest unused identifier instead of max + 1
NextIdGapFill(listing) ==
    LET used == {ParseInt(Match(f)) : f \in {g \in listing : Match(g) # <<>>}}
    IN  CHOOSE k \in 1..(Cardinality(used) + 1) :
            /\ k \notin used
            /\ \A j \in 1..(k - 1) : j \in used

\* max instead of max + 1
NextIdNoIncrement(listing) ==
    LET matches == {f \in listing : Match(f) # <<>>}
    IN  IF matches = {} THEN 1
        ELSE SetMax({ParseInt(Match(f)) : f \in matches})

\* the identifier setup() derives from a directory listing
NextId(listing) ==
    LET matches == {f \in listing : Match(f) # <<>>}
    IN  IF matches = {} THEN 1
        ELSE SetMax({ParseInt(Match(f)) : f \in matches}) + 1

\* the part of s after the last occurrence of c: s.split(sep=c)[-1]
RECURSIVE AfterLast(_, _)
AfterLast(s, c) ==
    IF s = <<>> THEN <<>>
    ELSE IF s[Len(s)] = c THEN <<>>
    ELSE AfterLast(SubSeq(s, 1, Len(s) - 1), c) \o <<s[Len(s)]>>

\* s.split(sep=c)
RECURSIVE Split(_, _)
Split(s, c) ==
    IF c \notin {s[i] : i \in 1..Len(s)} THEN <<s>>
    ELSE LET i == CHOOSE j \in 1..Len(s) : s[j] = c /\ \A k \in 1..(j - 1) : s[k] # c
         IN  <<SubSeq(s, 1, i - 1)>> \o Split(SubSeq(s, i + 1, Len(s)), c)

\* the components pathlib keeps: empty ones and "." are dropped
KeptPart(x) == x # <<>> /\ x # <<".">>

RECURSIVE JoinParts(_)
JoinParts(parts) ==
    IF Len(parts) = 1 THEN parts[1]
    ELSE parts[1] \o <<"/">> \o JoinParts(Tail(parts))

\* str(Path(s)) on a POSIX system
PathStr(s) ==
    LET abs == s # <<>> /\ s[1] = "/"
        parts == SelectSeq(Split(s, "/"), KeptPart)
    IN  IF parts = <<>> THEN (IF abs THEN <<"/">> ELSE <<".">>)
        ELSE (IF abs THEN <<"/">> ELSE <<>>) \o JoinParts(parts)

\* str(Path(dir) / name) for a relative name
PathJoin(dir, name) ==
    IF PathStr(dir) = <<".">> THEN PathStr(name)
    ELSE PathStr(PathStr(dir) \o <<"/">> \o name)

----------------------------------------------------------------------------
(* The file system and the command lines *)

NotesTxt == <<"n", "o", "t", "e", "s", ".", "t", "x", "t">>
ExperimentAbc == Prefix \o <<"a", "b", "c">>
Experiment7x == Prefix \o <<"7", "x">>
Experiment2 == Prefix \o <<"2">>
Experiment0006 == Prefix \o <<"0", "0", "0", "6">>
BarePrefix == Prefix
Experiment999 == Prefix \o <<"9", "9", "9">>

SlotNames == {Format(i) : i \in 1..MaxSlot}
OddNames == {NotesTxt, ExperimentAbc, Experiment7x, Experiment2, Experiment0006, BarePrefix}
Names == SlotNames \cup OddNames

\* args.log_dir; the default is <directory of the tool>/log_dir
LogDir == <<"l", "o", "g", "_", "d", "i", "r">>

\* other values of --log_dir
RunsSlash == <<"r", "u", "n", "s", "/">>

TmpAB == <<"/", "t", "m", "p", "/", "a", "_", "b">>

DotDir == <<".", "/">>

LogDirs == {LogDir, RunsSlash, TmpAB, DotDir}

TrainPy == <<"t", "r", "a", "i", "n", ".", "p", "y">>
MyScriptPy == <<"m", "y", "_", "s", "c", "r", "i", "p", "t", ".", "p", "y">>
SrcTrainPy ==
    <<"s", "r", "c", "/", "v", "_", "2", "/", "t", "r", "a", "i", "n", ".", "p",
      "y">>
GonePy == <<"g", "o", "n", "e", ".", "p", "y">>
RunSh == <<"r", "u", "n", ".", "s", "h">>

SlurmLogName == <<"s", "l", "u", "r", "m", "_", "l", "o", "g", ".", "o", "u", "t">>

Sbatch == <<"s", "b", "a", "t", "c", "h">>

Python3 == <<"p", "y", "t", "h", "o", "n", "3">>

JobNameFlag ==
    <<"-", "-", "j", "o", "b", "-", "n", "a", "m", "e", "=", "j", "o", "r", "b",
      "_">>

OutputFlag == <<"-", "-", "o", "u", "t", "p", "u", "t", "=">>

GpusFlag == <<"-", "-", "g", "p", "u", "s", "=">>

MemFlag == <<"-", "-", "m", "e", "m", "-", "p", "e", "r", "-", "c", "p", "u", "=">>

PartitionFlag ==
    <<"-", "-", "p", "a", "r", "t", "i", "t", "i", "o", "n", "=", "u", "n", "k",
      "i", "l", "l", "a", "b", "l", "e">>

ExportFlag ==
    <<"-", "-", "e", "x", "p", "o", "r", "t", "=", "A", "L", "L", ",", "L", "O",
      "G", "_", "D", "I", "R", "=">>

ExportLogFile == <<",", "L", "O", "G", "_", "F", "I", "L", "E", "=">>

LrArg == <<"-", "-", "l", "r">>

HomeDir == <<"/", "h", "o", "m", "e", "/", "u">>

StaleDir == <<"/", "o", "l", "d">>

EmptyDir == [kind |-> "dir", files |-> <<>>]
OldDir == [kind |-> "dir", files |-> (MessageName :> <<"old", "\n">>)]
PlainFile == [kind |-> "file", files |-> <<>>]

\* an entry that was in the tracking root before the first invocation
OldEntry(n) == IF n \in SlotNames THEN OldDir ELSE PlainFile

GoodArgs(local) ==
    [file |-> TrainPy, message |-> "baseline run", mem_per_cpu |-> 8, gpus |-> 0,
     local |-> local, log_dir |-> LogDir, script_args |-> <<>>]

ArgChoices ==
    { GoodArgs(TRUE), GoodArgs(FALSE),
      [GoodArgs(TRUE) EXCEPT !.file = GonePy],
      [GoodArgs(TRUE) EXCEPT !.file = RunSh],
      [GoodArgs(FALSE) EXCEPT !.mem_per_cpu = 0],
      [GoodArgs(FALSE) EXCEPT !.gpus = -1] }

\* command lines with other scripts, tracking roots, resources and script arguments
WideArgs ==
    { [file |-> f, message |-> "baseline run", mem_per_cpu |-> 8, gpus |-> g,
       local |-> l, log_dir |-> d, script_args |-> sa] :
      f \in {TrainPy, MyScriptPy, SrcTrainPy}, g \in {0, 2}, l \in BOOLEAN,
      d \in LogDirs, sa \in {<<>>, <<LrArg>>} }

\* the environment the tool is started in
NoEnv == [k \in {} |-> <<>>]

EnvChoices ==
    { NoEnv,
      ("HOME" :> HomeDir),
      ("HOME" :> HomeDir) @@ ("LOG_DIR" :> StaleDir),
      ("HOME" :> HomeDir) @@ ("LOG_DIR" :> StaleDir) @@ ("LOG_FILE" :> StaleDir) }

DefaultEnv == ("HOME" :> HomeDir) @@ ("LOG_DIR" :> StaleDir)

\* env=None: the child inherits the environment of the tool
NoLogEnv == [none |-> TRUE, vars |-> NoEnv]

NoCall == [state |-> "none", returncode |-> -1]

Terminal == {"done", "failed"}

\* the assertions at the head of setup()
ValidNoChecks(a, scr) == TRUE

Valid(a, scr) ==
    /\ a.file \in DOMAIN scr
    /\ EndsWith(a.file, PySuffix)
    /\ a.mem_per_cpu > 0
    /\ a.gpus >= 0

\* os.path.exists(path) for a path directly inside the tracking root;
\* os.mkdir(path) fails with FileExistsError exactly when it holds
PathExistsNever(name, listing) == FALSE

PathExists(name, listing) == name \in listing

\* exp_dir, as a name inside the tracking root
ExpDir(p) == Format(exp_id[p])

\* str(exp_dir)
ExpDirPath(p) == PathJoin(args[p].log_dir, ExpDir(p))

\* the identifier is taken after the first underscore of str(exp_dir)
CopyNameFirstField(file, dirPath) ==
    LET base == SubSeq(AfterLast(file, "/"), 1, Len(AfterLast(file, "/")) - 3)
        id == Split(dirPath, "_")[2]
    IN  base \o <<"_">> \o id \o PySuffix

\* copy_script: the name of the snapshot inside exp_dir
CopyName(file, dirPath) ==
    LET base == SubSeq(AfterLast(file, "/"), 1, Len(AfterLast(file, "/")) - 3)
        id == AfterLast(dirPath, "_")
    IN  base \o <<"_">> \o id \o PySuffix

\* the directory exp_dir is there
HasDir(p) == ExpDir(p) \in DOMAIN root /\ root[ExpDir(p)].kind = "dir"

\* write (or create) one file of exp_dir
PutFile(p, name, content) ==
    [root EXCEPT ![ExpDir(p)].files = (name :> content) @@ @]

\* open mode "w" in the place of "a": the file is truncated
AppendFileTruncate(p, name, lines) == PutFile(p, name, lines)

\* append to a file of exp_dir, creating it if needed (open mode "a")
AppendFile(p, name, lines) ==
    LET old == IF name \in DOMAIN root[ExpDir(p)].files
               THEN root[ExpDir(p)].files[name] ELSE <<>>
    IN  PutFile(p, name, old \o lines)

\* to_slurm: the command line for sbatch, or for the Python interpreter
SlurmCall(a, dirPath, run_script) ==
    ( IF ~a.local
      THEN << Sbatch,
              JobNameFlag \o AfterLast(dirPath, "_"),
              OutputFlag \o PathJoin(dirPath, SlurmLogName),
              GpusFlag \o Decimal(a.gpus),
              MemFlag \o Decimal(a.mem_per_cpu) \o <<"G">>,
              PartitionFlag,
              ExportFlag \o dirPath \o ExportLogFile \o PathJoin(dirPath, RecordName) >>
      ELSE << Python3 >> )
    \o <<run_script>> \o a.script_args

\* only the two variables are handed to the child
LogEnvOnly(a, env, dirPath) ==
    IF ~a.local THEN NoLogEnv
    ELSE [none |-> FALSE,
          vars |-> ("LOG_DIR" :> dirPath) @@ ("LOG_FILE" :> PathJoin(dirPath, RecordName))]

\* to_slurm: log_env, None or a copy of os.environ with LOG_DIR and LOG_FILE set
LogEnv(a, env, dirPath) ==
    IF ~a.local THEN NoLogEnv
    ELSE [none |-> FALSE,
          vars |-> ("LOG_DIR" :> dirPath) @@ ("LOG_FILE" :> PathJoin(dirPath, RecordName))
                   @@ env]

\* the environment of the child process of subprocess.run(cmd, env=e)
ChildEnv(e, own) == IF e.none THEN own ELSE e.vars

LogLine(level, text) == [level |-> level, text |-> text]

----------------------------------------------------------------------------
(* Initial states *)

InitListings ==
    { {}, {Format(1)}, {Format(1), Format(3), Format(MaxSlot)},
      {NotesTxt, ExperimentAbc, Experiment7x} }

InitProcs ==
    /\ scripts = (TrainPy :> "v1") @@ (RunSh :> "sh") @@ (MyScriptPy :> "v1")
                 @@ (SrcTrainPy :> "v1")
    /\ pc = [p \in Procs |-> "idle"]
    /\ args = [p \in Procs |-> GoodArgs(TRUE)]
    /\ file_list = [p \in Procs |-> {}]
    /\ exp_id = [p \in Procs |-> 0]
    /\ call_info = [p \in Procs |-> NoCall]
    /\ err = [p \in Procs |-> "none"]
    /\ exit = [p \in Procs |-> -1]
    /\ runs = 0
    /\ inv = [p \in Procs |-> 0]
    /\ effects = [p \in Procs |-> <<>>]
    /\ allocLog = <<>>
    /\ writers = [n \in DOMAIN root |-> {}]
    /\ owner = [n \in DOMAIN root |-> 0]
    /\ delCount = 0
    /\ slurm_call = [p \in Procs |-> <<>>]
    /\ log_env = [p \in Procs |-> NoLogEnv]

\* the tracking root is absent, or holds one of a few listings
Init ==
    /\ rootExists \in BOOLEAN
    /\ \E l \in InitListings :
          /\ (~rootExists) => l = {}
          /\ root = [n \in l |-> OldEntry(n)]
    /\ InitProcs
    /\ environ = [p \in Procs |-> DefaultEnv]

----------------------------------------------------------------------------
(* The steps of one invocation *)

\* main() with the snapshot taken after the dispatch
AfterMainSwapped(label) ==
    CASE label = "logging" -> "logconfig"
      [] label = "logconfig" -> "message"
      [] label = "message" -> "dispatch"
      [] label = "dispatch" -> "copy"
      [] label = "copy" -> "logresult"

\* main() with a retry: to_slurm is called again after it returned or raised
AfterMainRetry(label) ==
    CASE label = "logging" -> "logconfig"
      [] label = "logconfig" -> "message"
      [] label = "message" -> "copy"
      [] label = "copy" -> "dispatch"
      [] label = "dispatch" -> "dispatch"

\* main() with the message file written after the snapshot
AfterMainMessageLast(label) ==
    CASE label = "logging" -> "logconfig"
      [] label = "logconfig" -> "copy"
      [] label = "copy" -> "message"
      [] label = "message" -> "dispatch"
      [] label = "dispatch" -> "logresult"

\* the order of the statements of main() after setup() returned
AfterMain(label) ==
    CASE label = "logging" -> "logconfig"
      [] label = "logconfig" -> "message"
      [] label = "message" -> "copy"
      [] label = "copy" -> "dispatch"
      [] label = "dispatch" -> "logresult"

\* the order of the statements of setup()
AfterSetup(label, isdir) ==
    CASE label = "validate" -> "isdir"
      [] label = "isdir" -> IF isdir THEN "listdir" ELSE "mkroot"
      [] label = "mkroot" -> "listdir"
      [] label = "listdir" -> "exists"
      [] label = "exists" -> "mkdir"
      [] label = "mkdir" -> "logging"

procVars == <<pc, args, file_list, exp_id, call_info, err, exit, runs, inv, effects,
              environ, slurm_call, log_env>>

Goto(p, label) == pc' = [pc EXCEPT ![p] = label]

Did(p, stage) == effects' = [effects EXCEPT ![p] = Append(@, stage)]

\* an uncaught exception: the interpreter prints the traceback and exits with status 1
Raise(p, e) ==
    /\ pc' = [pc EXCEPT ![p] = "failed"]
    /\ err' = [err EXCEPT ![p] = e]
    /\ exit' = [exit EXCEPT ![p] = 1]

Touch(p) == writers' = [writers EXCEPT ![ExpDir(p)] = @ \cup {inv[p]}]

\* the operator starts the tool with one of the given command lines: parse_known_args
StartFrom(p, choices) ==
    /\ pc[p] \in Terminal \cup {"idle"}
    /\ \E a \in choices : args' = [args EXCEPT ![p] = a]
    /\ runs' = runs + 1
    /\ inv' = [inv EXCEPT ![p] = runs + 1]
    /\ pc' = [pc EXCEPT ![p] = "validate"]
    /\ file_list' = [file_list EXCEPT ![p] = {}]
    /\ exp_id' = [exp_id EXCEPT ![p] = 0]
    /\ call_info' = [call_info EXCEPT ![p] = NoCall]
    /\ err' = [err EXCEPT ![p] = "none"]
    /\ exit' = [exit EXCEPT ![p] = -1]
    /\ effects' = [effects EXCEPT ![p] = <<>>]
    /\ slurm_call' = [slurm_call EXCEPT ![p] = <<>>]
    /\ log_env' = [log_env EXCEPT ![p] = NoLogEnv]
    /\ UNCHANGED <<fsVars, histFs, allocLog, environ>>

Start(p) == StartFrom(p, ArgChoices)

\* setup(), lines 31-34
Validate(p) ==
    /\ pc[p] = "validate"
    /\ IF Valid(args[p], scripts)
       THEN Goto(p, AfterSetup("validate", rootExists)) /\ UNCHANGED <<err, exit>>
       ELSE Raise(p, "AssertionError")
    /\ UNCHANGED <<fsVars, histFs, allocLog, args, file_list, exp_id, call_info,
                   runs, inv, effects,
                   environ, slurm_call, log_env>>

\* setup(), line 37
IsDir(p) ==
    /\ pc[p] = "isdir"
    /\ Goto(p, AfterSetup("isdir", rootExists))
    /\ UNCHANGED <<fsVars, histFs, allocLog, args, file_list, exp_id, call_info,
                   err, exit, runs, inv, effects,
                   environ, slurm_call, log_env>>

\* setup(), line 38: os.mkdir(args.log_dir)
MkRoot(p) ==
    /\ pc[p] = "mkroot"
    /\ IF rootExists
       THEN Raise(p, "FileExistsError") /\ UNCHANGED <<rootExists, effects>>
       ELSE /\ Goto(p, AfterSetup("mkroot", rootExists))
            /\ rootExists' = TRUE
            /\ Did(p, "root")
            /\ UNCHANGED <<err, exit>>
    /\ UNCHANGED <<root, scripts, histFs, allocLog, args, file_list, exp_id,
                   call_info, runs, inv,
                   environ, slurm_call, log_env>>

\* setup(), lines 41-49: os.listdir and the computation of exp_id
ListDir(p) ==
    /\ pc[p] = "listdir"
    /\ file_list' = [file_list EXCEPT ![p] = DOMAIN root]
    /\ exp_id' = [exp_id EXCEPT ![p] = NextId(DOMAIN root)]
    /\ Goto(p, AfterSetup("listdir", rootExists))
    /\ Did(p, "alloc")
    /\ UNCHANGED <<fsVars, histFs, allocLog, args, call_info, err, exit, runs, inv,
                   environ, slurm_call, log_env>>

\* setup(), lines 52-53: assert not os.path.exists(exp_dir)
CheckExists(p) ==
    /\ pc[p] = "exists"
    /\ IF PathExists(ExpDir(p), DOMAIN root)
       THEN Raise(p, "AssertionError")
       ELSE Goto(p, AfterSetup("exists", rootExists)) /\ UNCHANGED <<err, exit>>
    /\ UNCHANGED <<fsVars, histFs, allocLog, args, file_list, exp_id, call_info,
                   runs, inv, effects,
                   environ, slurm_call, log_env>>

\* os.makedirs(exp_dir, exist_ok=True) in the place of os.mkdir(exp_dir)
MkDirExistOk(p) ==
    /\ pc[p] = "mkdir"
    /\ Goto(p, AfterSetup("mkdir", rootExists))
    /\ IF PathExists(ExpDir(p), DOMAIN root)
       THEN UNCHANGED <<root, owner, writers>>
       ELSE /\ root' = (ExpDir(p) :> EmptyDir) @@ root
            /\ owner' = (ExpDir(p) :> inv[p]) @@ owner
            /\ writers' = (ExpDir(p) :> {}) @@ writers
    /\ allocLog' = Append(allocLog, <<exp_id[p], inv[p]>>)
    /\ Did(p, "create")
    /\ UNCHANGED <<rootExists, scripts, delCount, args, file_list, exp_id,
                   call_info, err, exit, runs, inv,
                   environ, slurm_call, log_env>>

\* setup(), line 54: os.mkdir(exp_dir)
MkDir(p) ==
    /\ pc[p] = "mkdir"
    /\ IF PathExists(ExpDir(p), DOMAIN root)
       THEN /\ Raise(p, "FileExistsError")
            /\ UNCHANGED <<root, owner, writers, allocLog, effects>>
       ELSE /\ Goto(p, AfterSetup("mkdir", rootExists))
            /\ root' = (ExpDir(p) :> EmptyDir) @@ root
            /\ owner' = (ExpDir(p) :> inv[p]) @@ owner
            /\ writers' = (ExpDir(p) :> {}) @@ writers
            /\ allocLog' = Append(allocLog, <<exp_id[p], inv[p]>>)
            /\ Did(p, "create")
            /\ UNCHANGED <<err, exit>>
    /\ UNCHANGED <<rootExists, scripts, delCount, args, file_list, exp_id,
                   call_info, runs, inv,
                   environ, slurm_call, log_env>>

\* main(), line 152 and setup_logging: logging.basicConfig opens the record in mode "a"
SetupLogging(p) ==
    /\ pc[p] = "logging"
    /\ \E ok \in BOOLEAN :
          IF ok /\ HasDir(p)
          THEN /\ Goto(p, AfterMain("logging"))
               /\ root' = AppendFile(p, RecordName, <<>>)
               /\ Touch(p)
               /\ Did(p, "record")
               /\ UNCHANGED <<err, exit>>
          ELSE /\ Raise(p, "OSError")
               /\ UNCHANGED <<root, writers, effects>>
    /\ UNCHANGED <<rootExists, scripts, owner, delCount, allocLog, args, file_list,
                   exp_id, call_info, runs, inv,
                   environ, slurm_call, log_env>>

\* main(), lines 153-155: three logging.info calls
LogConfig(p) ==
    /\ pc[p] = "logconfig"
    /\ Goto(p, AfterMain("logconfig"))
    /\ IF HasDir(p)
       THEN /\ root' = AppendFile(p, RecordName,
                          << LogLine("INFO", "LOGGING CONFIGURATION"),
                             LogLine("INFO", "args"),
                             LogLine("INFO", "EXP_DIR") >>)
            /\ Touch(p)
       ELSE UNCHANGED <<root, writers>>
    /\ UNCHANGED <<rootExists, scripts, owner, delCount, allocLog, args, file_list,
                   exp_id, call_info, err, exit, runs, inv, effects,
                   environ, slurm_call, log_env>>

\* main(), lines 158-159
WriteMessage(p) ==
    /\ pc[p] = "message"
    /\ \E ok \in BOOLEAN :
          IF ok /\ HasDir(p)
          THEN /\ Goto(p, AfterMain("message"))
               /\ root' = PutFile(p, MessageName, <<args[p].message, "\n">>)
               /\ Touch(p)
               /\ Did(p, "message")
               /\ UNCHANGED <<err, exit>>
          ELSE /\ Raise(p, "OSError")
               /\ UNCHANGED <<root, writers, effects>>
    /\ UNCHANGED <<rootExists, scripts, owner, delCount, allocLog, args, file_list,
                   exp_id, call_info, runs, inv,
                   environ, slurm_call, log_env>>

\* an empty file is created in the place of the copy
SourceContentEmpty(scr, file) == ""

\* shutil.copy: the bytes of the source file, as they are when it is called
SourceContent(scr, file) == scr[file]

\* copy_script with a clean-up: shutil.rmtree(exp_dir) when the copy fails
CopyScriptRollback(p) ==
    /\ pc[p] = "copy"
    /\ \E ok \in BOOLEAN :
          IF ok /\ HasDir(p) /\ args[p].file \in DOMAIN scripts
          THEN /\ Goto(p, AfterMain("copy"))
               /\ root' = PutFile(p, CopyName(args[p].file, ExpDirPath(p)),
                                  SourceContent(scripts, args[p].file))
               /\ Touch(p)
               /\ Did(p, "snapshot")
               /\ UNCHANGED <<err, exit, owner>>
          ELSE /\ Raise(p, "OSError")
               /\ root' = [m \in DOMAIN root \ {ExpDir(p)} |-> root[m]]
               /\ owner' = [m \in DOMAIN root \ {ExpDir(p)} |-> owner[m]]
               /\ writers' = [m \in DOMAIN root \ {ExpDir(p)} |-> writers[m]]
               /\ UNCHANGED effects
    /\ UNCHANGED <<rootExists, scripts, delCount, allocLog, args, file_list,
                   exp_id, call_info, runs, inv,
                   environ, slurm_call, log_env>>

\* main(), line 162 and copy_script
CopyScript(p) ==
    /\ pc[p] = "copy"
    /\ \E ok \in BOOLEAN :
          IF ok /\ HasDir(p) /\ args[p].file \in DOMAIN scripts
          THEN /\ Goto(p, AfterMain("copy"))
               /\ root' = PutFile(p, CopyName(args[p].file, ExpDirPath(p)),
                                  SourceContent(scripts, args[p].file))
               /\ Touch(p)
               /\ Did(p, "snapshot")
               /\ UNCHANGED <<err, exit>>
          ELSE /\ Raise(p, "OSError")
               /\ UNCHANGED <<root, writers, effects>>
    /\ UNCHANGED <<rootExists, scripts, owner, delCount, allocLog, args, file_list,
                   exp_id, call_info, runs, inv,
                   environ, slurm_call, log_env>>

\* main(), line 166 and to_slurm: subprocess.run raises when the program cannot be
\* started, and otherwise returns the completed process with its return code
Dispatch(p) ==
    /\ pc[p] = "dispatch"
    /\ \E out \in { [state |-> "raised", returncode |-> -1],
                    [state |-> "returned", returncode |-> 0],
                    [state |-> "returned", returncode |-> 1] } :
          /\ call_info' = [call_info EXCEPT ![p] = out]
          /\ IF out.state = "returned"
             THEN /\ effects' = [effects EXCEPT ![p] = @ \o <<"launch", "dispatch">>]
                  /\ Touch(p)
             ELSE /\ Did(p, "launch")
                  /\ UNCHANGED writers
    /\ slurm_call' = [slurm_call EXCEPT ![p] =
                          SlurmCall(args[p], ExpDirPath(p),
                                    PathJoin(ExpDirPath(p),
                                             CopyName(args[p].file, ExpDirPath(p))))]
    /\ log_env' = [log_env EXCEPT ![p] = LogEnv(args[p], environ[p], ExpDirPath(p))]
    /\ Goto(p, AfterMain("dispatch"))
    /\ UNCHANGED <<fsVars, owner, delCount, allocLog, args, file_list, exp_id, err,
                   exit, runs, inv, environ>>

\* how main() ends after to_slurm: 0 when it returned, 1 when the exception is re-raised
ExitOf(info) == IF info.state = "returned" THEN 0 ELSE 1

\* main(), lines 167-170
LogResult(p) ==
    /\ pc[p] = "logresult"
    /\ exit' = [exit EXCEPT ![p] = ExitOf(call_info[p])]
    /\ IF call_info[p].state = "returned"
       THEN /\ Goto(p, "done")
            /\ UNCHANGED err
       ELSE /\ Goto(p, "failed")
            /\ err' = [err EXCEPT ![p] = "LaunchError"]
    /\ IF HasDir(p)
       THEN /\ root' = AppendFile(p, RecordName,
                          << IF call_info[p].state = "returned"
                             THEN LogLine("INFO", "call_info")
                             ELSE LogLine("ERROR", "to_slurm crashed") >>)
            /\ Touch(p)
       ELSE UNCHANGED <<root, writers>>
    /\ UNCHANGED <<rootExists, scripts, owner, delCount, allocLog, args, file_list,
                   exp_id, call_info, runs, inv, effects,
                   environ, slurm_call, log_env>>

\* the operator deletes a run directory
Delete ==
    /\ delCount < MaxDeletes
    /\ \E n \in DOMAIN root :
          /\ Match(n) # <<>>
          /\ root' = [m \in DOMAIN root \ {n} |-> root[m]]
          /\ owner' = [m \in DOMAIN root \ {n} |-> owner[m]]
          /\ writers' = [m \in DOMAIN root \ {n} |-> writers[m]]
    /\ delCount' = delCount + 1
    /\ UNCHANGED <<rootExists, scripts, allocLog, procVars>>

\* the operator edits the script
EditScript ==
    /\ TrainPy \in DOMAIN scripts
    /\ scripts[TrainPy] = "v1"
    /\ scripts' = [scripts EXCEPT ![TrainPy] = "v2"]
    /\ UNCHANGED <<rootExists, root, histFs, allocLog, procVars>>

\* the operator deletes the script
DeleteScript ==
    /\ TrainPy \in DOMAIN scripts
    /\ scripts' = [f \in DOMAIN scripts \ {TrainPy} |-> scripts[f]]
    /\ UNCHANGED <<rootExists, root, histFs, allocLog, procVars>>

Step(p) ==
    \/ Validate(p)
    \/ IsDir(p)
    \/ MkRoot(p)
    \/ ListDir(p)
    \/ CheckExists(p)
    \/ MkDir(p)
    \/ SetupLogging(p)
    \/ LogConfig(p)
    \/ WriteMessage(p)
    \/ CopyScript(p)
    \/ Dispatch(p)
    \/ LogResult(p)

\* no invocation is under way
Quiet == \A q \in Procs : pc[q] \in Terminal \cup {"idle"}

Invoke(p) == runs < MaxRuns /\ Start(p)

InvokeSeq(p) == runs < MaxSeqRuns /\ Quiet /\ Start(p)

InvokeOnce(p) == runs = 0 /\ Start(p)

InvokeQuiet(p) == runs < MaxRuns /\ Quiet /\ Start(p)

----------------------------------------------------------------------------
(* Specifications *)

\* invocations that may overlap
Next == \E p \in Procs : Invoke(p) \/ Step(p)

Spec == Init /\ [][Next]_vars

\* invocations one after the other, against an empty or absent tracking root
InitSeq ==
    /\ rootExists \in BOOLEAN
    /\ root = <<>>
    /\ InitProcs
    /\ environ = [p \in Procs |-> DefaultEnv]

NextSeq == InvokeSeq(1) \/ Step(1)

SpecSeq == InitSeq /\ [][NextSeq]_vars

\* invocations one after the other, and an operator who deletes run directories
NextDel == InvokeQuiet(1) \/ Step(1) \/ Delete

SpecDel == Init /\ [][NextDel]_vars

\* one invocation against a tracking root with any content
InitAlloc ==
    /\ rootExists \in BOOLEAN
    /\ \E l \in SUBSET Names :
          /\ (~rootExists) => l = {}
          /\ root = [n \in l |-> OldEntry(n)]
    /\ InitProcs
    /\ environ = [p \in Procs |-> DefaultEnv]

NextAlloc == InvokeOnce(1) \/ Step(1)

SpecAlloc == InitAlloc /\ [][NextAlloc]_vars

\* one invocation, and an operator who edits or deletes the script
NextSrc == InvokeOnce(1) \/ Step(1) \/ EditScript \/ DeleteScript

SpecSrc == Init /\ [][NextSrc]_vars

\* one invocation with any of the wider command lines, in any of the environments
InitEnv ==
    /\ rootExists \in BOOLEAN
    /\ \E l \in InitListings \cup {{Experiment999}} :
          /\ (~rootExists) => l = {}
          /\ root = [n \in l |-> IF Match(n) # <<>> THEN OldDir ELSE PlainFile]
    /\ InitProcs
    /\ \E e \in EnvChoices : environ = [p \in Procs |-> e]

InvokeWide(p) == runs = 0 /\ StartFrom(p, WideArgs)

NextEnv == InvokeWide(1) \/ Step(1)

SpecEnv == InitEnv /\ [][NextEnv]_vars

----------------------------------------------------------------------------
(* Properties *)

Range(s) == {s[i] : i \in 1..Len(s)}

IsPrefix(s, t) == Len(s) <= Len(t) /\ SubSeq(t, 1, Len(s)) = s

\* the integers of the entries of a listing that the pattern matches
MatchedInts(listing) == {ParseInt(Match(f)) : f \in {g \in listing : Match(g) # <<>>}}

\* the name is the literal prefix followed by one or more decimal digits
IsSlotName(f) == FullMatch(f) # <<>>

\* the identifiers of allocLog, in the order of their allocation
AllocIds == [k \in 1..Len(allocLog) |-> allocLog[k][1]]

Increasing(s) == \A i, j \in 1..Len(s) : i < j => s[i] < s[j]

\* C1: whatever the tracking root holds, the identifier setup computes is the
\* maximum of the integers parsed from the matching entries plus one, and 1 when
\* no entry matches; with the slots 1, 3 and 4 it is 5 (gaps are not filled).
C1_MaxPlusOne ==
    \A p \in Procs :
        exp_id[p] # 0 =>
            LET ints == MatchedInts(file_list[p])
            IN  /\ pc[p] = "exists" => file_list[p] = DOMAIN root
                /\ ints = {} => exp_id[p] = 1
                /\ ints # {} => /\ exp_id[p] - 1 \in ints
                                /\ \A i \in ints : i < exp_id[p]
                /\ file_list[p] = {Format(1), Format(3), Format(4)} => exp_id[p] = 5

C1_Witness ==
    /\ pc[1] = "exists"
    /\ file_list[1] = {Format(1), Format(3), Format(4)}
    /\ exp_id[1] = 5

\* C2: a step that finds the directory of the run slot already there (the check of
\* line 53 or the os.mkdir of line 54) ends the invocation with an error and exit
\* status 1 and changes nothing in the tracking root; the invocation runs no later
\* stage: the only step left to its process is a new invocation.
C2_ExistingSlotUntouched ==
    [][ \A p \in Procs :
          /\ ( /\ pc[p] \in {"exists", "mkdir"}
               /\ ExpDir(p) \in DOMAIN root
               /\ pc'[p] # pc[p] )
             => /\ pc'[p] = "failed"
                /\ err'[p] \in {"AssertionError", "FileExistsError"}
                /\ exit'[p] = 1
                /\ root' = root
                /\ rootExists' = rootExists
                /\ effects'[p] = effects[p]
          /\ (pc[p] = "failed" /\ pc'[p] # "failed") => inv'[p] # inv[p]
      ]_vars

C2_Witness ==
    \E p \in Procs :
        /\ pc[p] = "failed"
        /\ err[p] = "FileExistsError"
        /\ ExpDir(p) \in DOMAIN root
        /\ owner[ExpDir(p)] # inv[p]
        /\ root[ExpDir(p)].files # <<>>

\* C3: when invocations overlap, every identifier is created by at most one of
\* them, and only the invocation that created a run slot ever writes into it or
\* dispatches from it.
C3_OneWinnerPerSlot ==
    /\ \A i, j \in 1..Len(allocLog) : allocLog[i][1] = allocLog[j][1] => i = j
    /\ \A n \in DOMAIN root : writers[n] \subseteq {owner[n]}
    /\ \A p \in Procs :
          (pc[p] = "failed" /\ "alloc" \in Range(effects[p])
                            /\ "create" \notin Range(effects[p]))
          => /\ ExpDir(p) \in DOMAIN root
             /\ owner[ExpDir(p)] # inv[p]

C3_Witness ==
    \E p, q \in Procs :
        /\ p # q
        /\ exp_id[p] # 0
        /\ exp_id[p] = exp_id[q]
        /\ ExpDir(p) \in DOMAIN root
        /\ owner[ExpDir(p)] = inv[p]
        /\ inv[p] \in writers[ExpDir(p)]
        /\ pc[q] = "failed"
        /\ "alloc" \in Range(effects[q])
        /\ "create" \notin Range(effects[q])

\* C4: invocations that run one after the other against an initially empty
\* tracking root: the k-th invocation that reaches the creation of its directory
\* gets identifier k and creates experiment_<k>; none fails at the creation.
C4_SequentialIds ==
    /\ \A k \in 1..Len(allocLog) : allocLog[k][1] = k
    /\ DOMAIN root = {Format(k) : k \in 1..Len(allocLog)}
    /\ \A p \in Procs :
          "alloc" \in Range(effects[p])
          => \/ pc[p] \in {"exists", "mkdir"}
             \/ /\ "create" \in Range(effects[p])
                /\ allocLog[Len(allocLog)] = <<exp_id[p], inv[p]>>

C4_Witness ==
    /\ Len(allocLog) = 3
    /\ allocLog[3] = <<3, 4>>
    /\ Format(3) \in DOMAIN root

\* C5 as stated: every newly allocated identifier is greater than every
\* identifier allocated earlier, also when run directories are deleted.
C5_AlwaysIncreasing == Increasing(AllocIds)

\* C5 amended: as long as no run directory was deleted, every newly allocated
\* identifier is greater than every identifier allocated earlier, those of the
\* run slots that were in the root before the first invocation included.
C5_IncreasingWithoutDeletion ==
    delCount = 0 =>
        /\ Increasing(AllocIds)
        /\ \A n \in DOMAIN root :
              (owner[n] = 0 /\ Match(n) # <<>>)
              => \A k \in 1..Len(allocLog) : ParseInt(Match(n)) < allocLog[k][1]

C5_Witness ==
    /\ delCount = 0
    /\ Len(allocLog) = 2
    /\ \E n \in DOMAIN root : owner[n] = 0 /\ Match(n) # <<>>

\* C6: the entries whose name is not the prefix followed by digits only do not
\* influence the identifier: without them the scan gives the same identifier.
C6_NonSlotNamesIgnored ==
    \A p \in Procs :
        exp_id[p] # 0 => exp_id[p] = NextId({f \in file_list[p] : IsSlotName(f)})

\* C7 as stated: the identifier is the smallest positive integer that no
\* existing run slot uses.
C7_SmallestUnused ==
    \A p \in Procs :
        exp_id[p] # 0 =>
            /\ exp_id[p] \notin MatchedInts(file_list[p])
            /\ \A k \in 1..(exp_id[p] - 1) : k \in MatchedInts(file_list[p])

\* C7 amended: the identifier is the smallest positive integer greater than
\* every integer used by an entry the pattern matches.
C7_SmallestAboveAll ==
    \A p \in Procs :
        exp_id[p] # 0 =>
            /\ exp_id[p] >= 1
            /\ \A i \in MatchedInts(file_list[p]) : i < exp_id[p]
            /\ \A k \in 1..(exp_id[p] - 1) :
                  \E i \in MatchedInts(file_list[p]) : i >= k

C7_Witness ==
    /\ pc[1] = "exists"
    /\ \E k \in 1..(exp_id[1] - 1) : k \notin MatchedInts(file_list[1])

\* the script is missing or no .py file, the memory is not positive or the GPU
\* count is negative
BadArgs(a) ==
    \/ a.file \notin DOMAIN scripts
    \/ ~EndsWith(a.file, PySuffix)
    \/ a.mem_per_cpu <= 0
    \/ a.gpus < 0

\* C8: an invocation with bad arguments never gets past the validation, completes
\* no stage, ends with exit status 1, and its validation step leaves the file
\* system (tracking root, run slots, scripts) as it was.
C8_BadArgsTouchNothing ==
    /\ [](\A p \in Procs :
            (pc[p] # "idle" /\ BadArgs(args[p]))
            => /\ pc[p] \in {"validate", "failed"}
               /\ effects[p] = <<>>
               /\ \A n \in DOMAIN root : owner[n] # inv[p]
               /\ pc[p] = "failed" => exit[p] = 1)
    /\ [][ \A p \in Procs :
             (pc[p] = "validate" /\ BadArgs(args[p]) /\ pc'[p] # pc[p])
             => /\ pc'[p] = "failed"
                /\ fsVars' = fsVars
         ]_vars

C8_Witness ==
    \E p \in Procs :
        /\ pc[p] = "failed"
        /\ args[p].gpus < 0
        /\ ~rootExists
        /\ effects[p] = <<>>

IsCoreStage(s) == s \in {"alloc", "create", "snapshot", "dispatch"}

CoreStages(p) == SelectSeq(effects[p], IsCoreStage)

\* C9: the stages an invocation completed are, in this order, a prefix of
\* allocation, creation, snapshot, dispatch: a snapshot is taken only into the
\* directory the invocation created, and a dispatch only after its snapshot is
\* in that directory.
C9_StagesInOrder ==
    \A p \in Procs :
        /\ IsPrefix(CoreStages(p), <<"alloc", "create", "snapshot", "dispatch">>)
        /\ "snapshot" \in Range(effects[p])
           => /\ HasDir(p)
              /\ owner[ExpDir(p)] = inv[p]
              /\ CopyName(args[p].file, ExpDirPath(p)) \in DOMAIN root[ExpDir(p)].files
        /\ "dispatch" \in Range(effects[p]) => call_info[p].state = "returned"
        /\ call_info[p].state # "none" => "snapshot" \in Range(effects[p])

C9_Witness ==
    \E p, q \in Procs :
        /\ pc[p] = "done"
        /\ CoreStages(p) = <<"alloc", "create", "snapshot", "dispatch">>
        /\ pc[q] = "failed"
        /\ err[q] = "OSError"
        /\ CoreStages(q) = <<"alloc", "create">>
        /\ "message" \in Range(effects[q])

\* C10: an invocation that reached the dispatch ends in success, with exit
\* status 0, only when the subprocess was started and returned 0; otherwise it
\* ends as a failure with a non-zero exit status.
C10_NonZeroIsDispatchFailed ==
    \A p \in Procs :
        (pc[p] \in Terminal /\ call_info[p].state # "none")
        => IF call_info[p].state = "returned" /\ call_info[p].returncode = 0
           THEN pc[p] = "done" /\ exit[p] = 0
           ELSE pc[p] = "failed" /\ exit[p] # 0

\* the directory entry n holds a script snapshot
HasSnapshot(n) == \E f \in DOMAIN root[n].files : EndsWith(f, PySuffix)

\* C11: nothing is rolled back: the directory an invocation created, and the
\* record, message and snapshot it wrote, are there in every later state of the
\* invocation, also after it failed; no step removes the tracking root, an entry
\* of it or a file of an entry.
C11_NoRollback ==
    /\ [](\A p \in Procs :
            "create" \in Range(effects[p])
            => /\ HasDir(p)
               /\ owner[ExpDir(p)] = inv[p]
               /\ "record" \in Range(effects[p])
                  => RecordName \in DOMAIN root[ExpDir(p)].files
               /\ "message" \in Range(effects[p])
                  => MessageName \in DOMAIN root[ExpDir(p)].files
               /\ "snapshot" \in Range(effects[p])
                  => CopyName(args[p].file, ExpDirPath(p)) \in DOMAIN root[ExpDir(p)].files)
    /\ [][ /\ rootExists => rootExists'
           /\ \A n \in DOMAIN root :
                 /\ n \in DOMAIN root'
                 /\ root'[n].kind = root[n].kind
                 /\ \A f \in DOMAIN root[n].files : f \in DOMAIN root'[n].files
         ]_vars

C11_Witness ==
    \E p \in Procs :
        /\ pc[p] = "failed"
        /\ err[p] = "OSError"
        /\ "message" \in Range(effects[p])
        /\ "snapshot" \notin Range(effects[p])
        /\ HasDir(p)
        /\ MessageName \in DOMAIN root[ExpDir(p)].files

\* C14 as stated: once the snapshot is written, and once the record holds the
\* three lines of the configuration, no step changes the content of either.
C14_WrittenOnce ==
    [][ \A n \in DOMAIN root : \A f \in DOMAIN root[n].files :
          ( \/ EndsWith(f, PySuffix)
            \/ f = RecordName /\ Len(root[n].files[f]) >= 3 )
          => /\ n \in DOMAIN root'
             /\ f \in DOMAIN root'[n].files
             /\ root'[n].files[f] = root[n].files[f]
      ]_vars

\* C14 amended: no step changes the content of a snapshot, and the record only
\* grows: every step leaves the lines it holds in place and at most appends.
C14_SnapshotFixedRecordAppendOnly ==
    [][ \A n \in DOMAIN root : \A f \in DOMAIN root[n].files :
          /\ EndsWith(f, PySuffix)
             => /\ n \in DOMAIN root'
                /\ f \in DOMAIN root'[n].files
                /\ root'[n].files[f] = root[n].files[f]
          /\ f = RecordName
             => /\ n \in DOMAIN root'
                /\ f \in DOMAIN root'[n].files
                /\ IsPrefix(root[n].files[f], root'[n].files[f])
      ]_vars

C14_Witness ==
    \E p \in Procs :
        /\ pc[p] = "done"
        /\ HasSnapshot(ExpDir(p))
        /\ Len(root[ExpDir(p)].files[RecordName]) = 4
        /\ root[ExpDir(p)].files[RecordName][4] = LogLine("INFO", "call_info")

\* C17: no invocation fails at the creation of the tracking root because the
\* root is already there.
C17_RootCreationNeverFails ==
    \A p \in Procs :
        ~(pc[p] = "failed" /\ err[p] = "FileExistsError" /\ effects[p] = <<>>)

\* C18: with nobody else changing the tracking root, the name rendered from the
\* computed identifier is not among the entries of the root: the check of line
\* 53 and the os.mkdir of line 54 never fail.
C18_FreshSlotName ==
    \A p \in Procs :
        /\ exp_id[p] # 0 => Format(exp_id[p]) \notin file_list[p]
        /\ pc[p] \in {"exists", "mkdir"} => ExpDir(p) \notin DOMAIN root
        /\ (pc[p] = "failed" /\ "alloc" \in Range(effects[p]))
           => "create" \in Range(effects[p])

C18_Witness ==
    /\ pc[1] = "logging"
    /\ {Experiment0006, Experiment2, Format(1)} \subseteq file_list[1]
    /\ exp_id[1] = 7
    /\ Format(7) \in DOMAIN root

\* C19: in every state the artifacts of a run slot the tracker created are
\* prefix-closed: a message file only with a record, a snapshot only with record
\* and message file, and a subprocess was started only with the snapshot in the
\* slot.
C19_ArtifactsPrefixClosed ==
    /\ \A n \in DOMAIN root :
          owner[n] # 0
          => /\ MessageName \in DOMAIN root[n].files
                => RecordName \in DOMAIN root[n].files
             /\ HasSnapshot(n)
                => /\ RecordName \in DOMAIN root[n].files
                   /\ MessageName \in DOMAIN root[n].files
    /\ \A p \in Procs :
          call_info[p].state # "none" => HasDir(p) /\ HasSnapshot(ExpDir(p))

C19_Witness ==
    \E p \in Procs :
        /\ pc[p] = "failed"
        /\ err[p] = "OSError"
        /\ HasDir(p)
        /\ DOMAIN root[ExpDir(p)].files = {RecordName}

IsLaunch(s) == s = "launch"

\* the number of times the current invocation of p called subprocess.run
LaunchCount(p) == Len(SelectSeq(effects[p], IsLaunch))

\* C16: an invocation calls subprocess.run at most once: once when it got past
\* the dispatch stage, never when an earlier stage failed; a failed invocation
\* takes no further step (nothing is retried): its process changes only when the
\* operator starts a new invocation.
C16_OneLaunchNoRetry ==
    /\ [](\A p \in Procs :
            /\ LaunchCount(p) <= 1
            /\ LaunchCount(p) = 1
               <=> \/ pc[p] \in {"logresult", "done"}
                   \/ pc[p] = "failed" /\ err[p] = "LaunchError"
            /\ LaunchCount(p) = 0 <=> call_info[p] = NoCall)
    /\ [][ \A p \in Procs :
             (pc[p] = "failed" /\ inv'[p] = inv[p])
             => /\ pc'[p] = "failed"
                /\ effects'[p] = effects[p]
                /\ exp_id'[p] = exp_id[p]
                /\ call_info'[p] = call_info[p]
         ]_vars

C16_Witness ==
    \E p, q \in Procs :
        /\ pc[p] = "done"
        /\ LaunchCount(p) = 1
        /\ pc[q] = "failed"
        /\ err[q] = "OSError"
        /\ "message" \in Range(effects[q])
        /\ LaunchCount(q) = 0

\* C15: the step that takes the snapshot writes the content the source has at
\* that moment, and no later step, an edit or the deletion of the source
\* included, changes the content of a snapshot.
C15_SnapshotIndependent ==
    [][ /\ \A p \in Procs :
              (pc[p] = "copy" /\ pc'[p] # "copy" /\ pc'[p] # "failed")
              => /\ CopyName(args[p].file, ExpDirPath(p)) \in DOMAIN root'[ExpDir(p)].files
                 /\ root'[ExpDir(p)].files[CopyName(args[p].file, ExpDirPath(p))]
                       = scripts[args[p].file]
        /\ \A n \in DOMAIN root : \A f \in DOMAIN root[n].files :
              EndsWith(f, PySuffix)
              => /\ n \in DOMAIN root'
                 /\ f \in DOMAIN root'[n].files
                 /\ root'[n].files[f] = root[n].files[f]
      ]_vars

C15_Witness ==
    \E p \in Procs :
        /\ pc[p] = "done"
        /\ HasSnapshot(ExpDir(p))
        /\ root[ExpDir(p)].files[CopyName(args[p].file, ExpDirPath(p))] = "v2"
        /\ TrainPy \notin DOMAIN scripts

\* the rendered identifier of the run slot: what follows the prefix in its name
RenderedId(p) == SubSeq(ExpDir(p), Len(Prefix) + 1, Len(ExpDir(p)))

\* the extension of a file name, with its dot
Extension(name) == <<".">> \o AfterLast(name, ".")

\* the file name without its directories and without its extension
Stem(file) ==
    LET name == AfterLast(file, "/")
    IN  SubSeq(name, 1, Len(name) - Len(Extension(name)))

\* the name the snapshot of the run of p has to carry
SnapshotName(p) ==
    Stem(args[p].file) \o <<"_">> \o RenderedId(p) \o Extension(args[p].file)

\* C12: the snapshot is named <base>_<id><ext> with the base name and the
\* extension of the source and the rendered identifier of the run slot; the
\* job name ends in the same rendered identifier; the dispatched script is
\* the snapshot; and the scheduler's output file, LOG_DIR and LOG_FILE are
\* the run slot, or files directly inside it, for every tracking root and
\* every script name.
C12_IdentityThreaded ==
    \A p \in Procs :
        LET slot == ExpDirPath(p)
        IN  /\ "snapshot" \in Range(effects[p])
               => /\ AfterLast(slot, "/") = ExpDir(p)
                  /\ SnapshotName(p) \in DOMAIN root[ExpDir(p)].files
                  /\ \A f \in DOMAIN root[ExpDir(p)].files :
                        EndsWith(f, PySuffix) => f = SnapshotName(p)
            /\ slurm_call[p] # <<>>
               => /\ slurm_call[p][IF args[p].local THEN 2 ELSE 8]
                        = slot \o <<"/">> \o SnapshotName(p)
                  /\ args[p].local
                     => /\ ~log_env[p].none
                        /\ log_env[p].vars["LOG_DIR"] = slot
                        /\ log_env[p].vars["LOG_FILE"] = slot \o <<"/">> \o RecordName
                  /\ ~args[p].local
                     => /\ slurm_call[p][2] = JobNameFlag \o RenderedId(p)
                        /\ slurm_call[p][3]
                              = OutputFlag \o slot \o <<"/">> \o SlurmLogName
                        /\ slurm_call[p][7]
                              = ExportFlag \o slot \o ExportLogFile
                                \o slot \o <<"/">> \o RecordName

C12_Witness ==
    \E p \in Procs :
        /\ pc[p] = "done"
        /\ ~args[p].local
        /\ args[p].log_dir = TmpAB
        /\ args[p].file = MyScriptPy
        /\ exp_id[p] = 1000
        /\ slurm_call[p] # <<>>

\* C13: in local mode the environment handed to the child has exactly the
\* variables of the tool's environment plus LOG_DIR and LOG_FILE, LOG_DIR is
\* the run directory, LOG_FILE the record file, every other variable has the
\* value the tool inherited; and no step changes the tool's own environment.
C13_ChildEnvIsInheritedPlusTwo ==
    /\ [](\A p \in Procs :
            (slurm_call[p] # <<>> /\ args[p].local)
            => LET child == ChildEnv(log_env[p], environ[p])
               IN  /\ DOMAIN child = DOMAIN environ[p] \cup {"LOG_DIR", "LOG_FILE"}
                   /\ child["LOG_DIR"] = ExpDirPath(p)
                   /\ child["LOG_FILE"] = PathJoin(ExpDirPath(p), RecordName)
                   /\ \A k \in DOMAIN environ[p] \ {"LOG_DIR", "LOG_FILE"} :
                         child[k] = environ[p][k])
    /\ [][environ' = environ]_vars

C13_Witness ==
    \E p \in Procs :
        /\ pc[p] = "done"
        /\ args[p].local
        /\ DOMAIN environ[p] = {"HOME", "LOG_DIR"}
        /\ environ[p]["LOG_DIR"] = StaleDir
        /\ ChildEnv(log_env[p], environ[p])["LOG_DIR"] = ExpDirPath(p)
        /\ ChildEnv(log_env[p], environ[p])["HOME"] = HomeDir

====
